---- MODULE Spec2Model ----
(***************************************************************************)
(* The queue boarding / QR-confirmation workflow of the driver panel:      *)
(* the QueueQRScanner component (components/queue-qr-scanner.tsx).         *)
(*                                                                         *)
(* The component holds three pieces of state (showScanner, currentScanId,  *)
(* scanLocked) and receives the passenger list and the disabled flag as    *)
(* props.  Its handlers are reachable only through the controls the        *)
(* component renders, so every driver operation is modelled as the press   *)
(* of a control: the render condition and the disabled attribute of the    *)
(* control decide whether the handler runs at all, and the handler body    *)
(* then decides what happens.  The owner of the passenger list receives    *)
(* onUpdate / onAccept / onReject / onReturn; its reaction is part of the  *)
(* step that fires the callback.                                           *)
(*                                                                         *)
(* Passenger fields that no handler reads and that every handler copies    *)
(* unchanged through the object spread (name, isFirst, count, orderNumber) *)
(* are not carried.                                                        *)
(***************************************************************************)
EXTENDS Integers, Sequences, FiniteSets, TLC

MaxPassengers == 2

TicketPrice == 320
GridSize == 5
Null == -1

VARIABLES passengers, disabled, language, showScanner, currentScanId,
          scanLocked, log, calls, last, trip

props == <<passengers, disabled, language>>
session == <<showScanner, currentScanId, scanLocked>>
vars == <<passengers, disabled, language, showScanner, currentScanId,
          scanLocked, log, calls, last, trip>>

\* Passenger ids (0 is a number like any other), the instants new Date()
\* may return, and the languages the recipient line distinguishes.
Ids == 0..MaxPassengers
Times == {0, 1}
Languages == {"ru", "en"}

(***************************************************************************)
(* Passengers.  qrData is optional: the empty set when undefined, a        *)
(* singleton holding the payload when present.                             *)
(***************************************************************************)
QueuePassenger(id, pos, tc, scanned, qrError, qrData) ==
  [id |-> id, queuePosition |-> pos, ticketCount |-> tc,
   scanned |-> scanned, qrError |-> qrError, qrData |-> qrData]

Recipient(lang) ==
  IF lang = "ru" THEN "Voditel Ivanov I.I." ELSE "Driver Ivanov I."

mockQRData(p, lang, now) ==
  [sum |-> p.ticketCount * TicketPrice, recipient |-> Recipient(lang),
   created_at |-> now]

\* The tri-state as the grid cell shows it: qrError takes precedence, and a
\* passenger counts as scanned only when it is scanned and carries qrData.
ScanStatus(p) ==
  IF p.qrError THEN "Error"
  ELSE IF p.scanned /\ p.qrData # {} THEN "Scanned"
  ELSE "Pending"

\* !currentScanId : null and 0 are both falsy.
Falsy(n) == n = Null \/ n = 0

\* Array.prototype.find by id: index of the passenger, 0 when there is none.
FindById(ps, id) ==
  IF \E i \in 1..Len(ps) : ps[i].id = id
  THEN CHOOSE i \in 1..Len(ps) :
         /\ ps[i].id = id
         /\ \A j \in 1..(i - 1) : ps[j].id # id
  ELSE 0

\* Mutation: the find forgets the !p.qrError test.
FindNextPassenger_ignoresError(ps) ==
  IF \E i \in 1..Len(ps) : ~ps[i].scanned
  THEN CHOOSE i \in 1..Len(ps) :
         /\ ~ps[i].scanned
         /\ \A j \in 1..(i - 1) : ps[j].scanned
  ELSE 0

\* passengers.find(p => !p.scanned && !p.qrError): first match in array order.
FindNextPassenger(ps) ==
  IF \E i \in 1..Len(ps) : ~ps[i].scanned /\ ~ps[i].qrError
  THEN CHOOSE i \in 1..Len(ps) :
         /\ ~ps[i].scanned /\ ~ps[i].qrError
         /\ \A j \in 1..(i - 1) : ps[j].scanned \/ ps[j].qrError
  ELSE 0

logFSMEvent(event, details, now) ==
  [event |-> event, details |-> details, timestamp |-> now]

(***************************************************************************)
(* The owner of the passenger list (the caller of the component).          *)
(***************************************************************************)
parentOnUpdate(ps, updated) == updated

parentOnAccept(ps, id) == SelectSeq(ps, LAMBDA p : p.id # id)

parentOnReject(ps, id) == SelectSeq(ps, LAMBDA p : p.id # id)

parentOnReturn(ps, id) ==
  [i \in 1..Len(ps) |->
     IF ps[i].id = id
     THEN [ps[i] EXCEPT !.scanned = FALSE, !.qrError = FALSE, !.qrData = {}]
     ELSE ps[i]]

(***************************************************************************)
(* The race (trip) lifecycle tables of lib/fsm-types.ts.  An object        *)
(* indexed by a key it does not hold yields undefined: a lookup returns    *)
(* the empty set then, and the singleton of the entry otherwise.           *)
(***************************************************************************)
RaceStates ==
  {"RACE_OFFLINE", "RACE_WAITING_START", "RACE_BOARDING", "RACE_IN_TRANSIT",
   "RACE_ARRIVED_STOP", "RACE_FINISHED"}

TransitionActions ==
  {"start_shift", "start_trip", "depart_stop", "arrive_stop",
   "start_boarding", "finish_trip", "none"}

TRIP_STATUS_TO_RACE_STATE ==
  [k \in {"PREP_IDLE", "PREP_TIMER", "BOARDING", "ROUTE_READY", "IN_ROUTE",
          "FINISHED"} |->
     CASE k = "PREP_IDLE" -> "RACE_OFFLINE"
       [] k = "PREP_TIMER" -> "RACE_WAITING_START"
       [] k = "BOARDING" -> "RACE_BOARDING"
       [] k = "ROUTE_READY" -> "RACE_ARRIVED_STOP"
       [] k = "IN_ROUTE" -> "RACE_IN_TRANSIT"
       [] k = "FINISHED" -> "RACE_FINISHED"]

ButtonConfig(label, action, enabled) ==
  [label |-> label, action |-> action, enabled |-> enabled]

\* Mutation: the table as it stood before RACE_FINISHED got its action.
RACE_STATE_TO_BUTTON_finishedNone ==
  [k \in RaceStates |->
     CASE k = "RACE_OFFLINE" -> ButtonConfig("Vyjti na liniyu", "start_shift", TRUE)
       [] k = "RACE_WAITING_START" -> ButtonConfig("Nachat rejs", "start_trip", TRUE)
       [] k = "RACE_BOARDING" -> ButtonConfig("Otpravitsya", "depart_stop", TRUE)
       [] k = "RACE_IN_TRANSIT" -> ButtonConfig("Pribyl", "arrive_stop", TRUE)
       [] k = "RACE_ARRIVED_STOP" -> ButtonConfig("Nachat posadku", "start_boarding", TRUE)
       [] k = "RACE_FINISHED" -> ButtonConfig("Zavershit rejs", "none", FALSE)]

\* Mutation: RACE_ARRIVED_STOP offers depart_stop instead of start_boarding.
RACE_STATE_TO_BUTTON_arrivedDeparts ==
  [k \in RaceStates |->
     CASE k = "RACE_OFFLINE" -> ButtonConfig("Vyjti na liniyu", "start_shift", TRUE)
       [] k = "RACE_WAITING_START" -> ButtonConfig("Nachat rejs", "start_trip", TRUE)
       [] k = "RACE_BOARDING" -> ButtonConfig("Otpravitsya", "depart_stop", TRUE)
       [] k = "RACE_IN_TRANSIT" -> ButtonConfig("Pribyl", "arrive_stop", TRUE)
       [] k = "RACE_ARRIVED_STOP" -> ButtonConfig("Nachat posadku", "depart_stop", TRUE)
       [] k = "RACE_FINISHED" -> ButtonConfig("Zavershit rejs", "finish_trip", TRUE)]

\* The labels are the source's Russian ones, transliterated.
RACE_STATE_TO_BUTTON ==
  [k \in RaceStates |->
     CASE k = "RACE_OFFLINE" -> ButtonConfig("Vyjti na liniyu", "start_shift", TRUE)
       [] k = "RACE_WAITING_START" -> ButtonConfig("Nachat rejs", "start_trip", TRUE)
       [] k = "RACE_BOARDING" -> ButtonConfig("Otpravitsya", "depart_stop", TRUE)
       [] k = "RACE_IN_TRANSIT" -> ButtonConfig("Pribyl", "arrive_stop", TRUE)
       [] k = "RACE_ARRIVED_STOP" -> ButtonConfig("Nachat posadku", "start_boarding", TRUE)
       [] k = "RACE_FINISHED" -> ButtonConfig("Zavershit rejs", "finish_trip", TRUE)]

PanelVisibility(mainButton, queue, reservation, cash) ==
  [mainButton |-> mainButton, queue |-> queue, reservation |-> reservation,
   cash |-> cash]

RACE_STATE_TO_PANELS ==
  [k \in RaceStates |->
     CASE k = "RACE_OFFLINE" -> PanelVisibility(TRUE, FALSE, FALSE, FALSE)
       [] k = "RACE_WAITING_START" -> PanelVisibility(TRUE, FALSE, FALSE, FALSE)
       [] k = "RACE_BOARDING" -> PanelVisibility(TRUE, TRUE, TRUE, TRUE)
       [] k = "RACE_IN_TRANSIT" -> PanelVisibility(TRUE, FALSE, FALSE, TRUE)
       [] k = "RACE_ARRIVED_STOP" -> PanelVisibility(TRUE, TRUE, TRUE, TRUE)
       [] k = "RACE_FINISHED" -> PanelVisibility(TRUE, FALSE, FALSE, FALSE)]

\* What every object literal inherits from Object.prototype: a property
\* access with one of these keys finds a function or the prototype object.
ObjectPrototype ==
  [k \in {"constructor", "toString", "valueOf", "hasOwnProperty", "__proto__",
          "isPrototypeOf", "propertyIsEnumerable", "toLocaleString",
          "__defineGetter__", "__defineSetter__", "__lookupGetter__",
          "__lookupSetter__"} |->
     CASE k = "constructor" -> "[Function: Object]"
       [] k = "toString" -> "[Function: toString]"
       [] k = "valueOf" -> "[Function: valueOf]"
       [] k = "hasOwnProperty" -> "[Function: hasOwnProperty]"
       [] k = "__proto__" -> "[Object: null prototype] {}"
       [] k = "isPrototypeOf" -> "[Function: isPrototypeOf]"
       [] k = "propertyIsEnumerable" -> "[Function: propertyIsEnumerable]"
       [] k = "toLocaleString" -> "[Function: toLocaleString]"
       [] k = "__defineGetter__" -> "[Function: __defineGetter__]"
       [] k = "__defineSetter__" -> "[Function: __defineSetter__]"
       [] k = "__lookupGetter__" -> "[Function: __lookupGetter__]"
       [] k = "__lookupSetter__" -> "[Function: __lookupSetter__]"]

Lookup(table, key) ==
  IF key \in DOMAIN table THEN {table[key]}
  ELSE IF key \in DOMAIN ObjectPrototype THEN {ObjectPrototype[key]}
  ELSE {}

\* The legacy adapter is the bare table lookup: it raises nothing.
toRaceState(legacyStatus) ==
  [value |-> Lookup(TRIP_STATUS_TO_RACE_STATE, legacyStatus), error |-> "none"]

\* The external trip store: the state each action leads to.
storeApply(state, action) ==
  CASE action = "start_shift" -> "RACE_WAITING_START"
    [] action = "start_trip" -> "RACE_BOARDING"
    [] action = "depart_stop" -> "RACE_IN_TRANSIT"
    [] action = "arrive_stop" -> "RACE_ARRIVED_STOP"
    [] action = "start_boarding" -> "RACE_BOARDING"
    [] action = "finish_trip" -> "RACE_OFFLINE"
    [] OTHER -> state

\* The trip as the panel sees it: the race state, who moved it last and by
\* which action, and the last legacy status converted with its result.
TripInit ==
  [raceState |-> "RACE_OFFLINE", by |-> "init", action |-> "none",
   legacy |-> "none", adapted |-> [value |-> {}, error |-> "none"]]

(***************************************************************************)
(* Initial state: the component is mounted with some passenger list.       *)
(***************************************************************************)
Injective(f, n) == \A i, j \in 1..n : f[i] = f[j] => i = j

\* Ids are unique; they are labels, so the list is taken with its ids in
\* increasing order along the array, while queuePosition is free of it.
Increasing(f, n) == \A i, j \in 1..n : i < j => f[i] < f[j]

\* The tickets of a party: 1 or 2, fixed per passenger.
InitTicketCount(id) == 1 + (id % 2)

InitPassenger(id, pos, tc, st, lang) ==
  QueuePassenger(id, pos, tc, st = "Scanned", st = "Error",
                 IF st = "Scanned"
                 THEN {[sum |-> tc * TicketPrice, recipient |-> Recipient(lang),
                        created_at |-> 0]}
                 ELSE {})

Init ==
  /\ disabled \in BOOLEAN
  /\ language \in Languages
  /\ \E n \in 0..MaxPassengers :
       \E ids \in [1..n -> Ids], pos \in [1..n -> 1..n],
          st \in [1..n -> {"Pending", "Scanned", "Error"}] :
         /\ Increasing(ids, n)
         /\ Injective(pos, n)
         /\ passengers =
              [i \in 1..n |->
                 InitPassenger(ids[i], pos[i], InitTicketCount(ids[i]), st[i],
                               language)]
  /\ showScanner = FALSE
  /\ currentScanId = Null
  /\ scanLocked = FALSE
  /\ log = <<>>
  /\ calls = <<>>
  /\ last = [op |-> "init", id |-> Null, result |-> "none", via |-> "ui"]
  /\ trip = TripInit

(***************************************************************************)
(* Handlers.                                                               *)
(***************************************************************************)
Outcome(op, id, result, via) ==
  [op |-> op, id |-> id, result |-> result, via |-> via]

\* passengers.map of handleScanSuccess: the target becomes scanned with data.
markScanned(ps, id, data) ==
  [k \in 1..Len(ps) |->
     IF ps[k].id = id
     THEN [ps[k] EXCEPT !.scanned = TRUE, !.qrError = FALSE, !.qrData = {data}]
     ELSE ps[k]]

\* Mutation: the map forgets the id test and marks every passenger.
markError_everyPassenger(ps, id) ==
  [k \in 1..Len(ps) |-> [ps[k] EXCEPT !.qrError = TRUE, !.scanned = FALSE]]

\* Mutation: the error branch is pasted from the success branch and keeps
\* scanned: true.
markError_scannedTrue(ps, id) ==
  [k \in 1..Len(ps) |->
     IF ps[k].id = id
     THEN [ps[k] EXCEPT !.qrError = TRUE, !.scanned = TRUE]
     ELSE ps[k]]

\* passengers.map of handleScanError: the target is flagged qrError; the
\* spread keeps whatever qrData it carried.
markError(ps, id) ==
  [k \in 1..Len(ps) |->
     IF ps[k].id = id
     THEN [ps[k] EXCEPT !.qrError = TRUE, !.scanned = FALSE]
     ELSE ps[k]]

handleStartScan(now, via) ==
  IF disabled
  THEN /\ log' = <<logFSMEvent("ui:blocked",
                     [action |-> "queue_scan", reason |-> "preparation_not_started"],
                     now)>>
       /\ calls' = <<>>
       /\ last' = Outcome("startScan", Null, "blocked", via)
       /\ UNCHANGED <<props, session, trip>>
  ELSE LET i == FindNextPassenger(passengers) IN
       IF i = 0
       THEN /\ log' = <<logFSMEvent("ui:blocked",
                          [action |-> "queue_scan", reason |-> "no_passengers_available"],
                          now)>>
            /\ calls' = <<>>
            /\ last' = Outcome("startScan", Null, "blocked", via)
            /\ UNCHANGED <<props, session, trip>>
       ELSE /\ log' = <<logFSMEvent("scan:start",
                          [passengerId |-> passengers[i].id, context |-> "queue"],
                          now)>>
            /\ currentScanId' = passengers[i].id
            /\ scanLocked' = TRUE
            /\ showScanner' = TRUE
            /\ calls' = <<>>
            /\ last' = Outcome("startScan", passengers[i].id, "started", via)
            /\ UNCHANGED <<props, trip>>

\* The clock is read twice: now stamps the logged event, created is the
\* later new Date() that fills created_at.
handleScanSuccess(now, created, via) ==
  IF Falsy(currentScanId)
  THEN /\ log' = <<>>
       /\ calls' = <<>>
       /\ last' = Outcome("scanSuccess", currentScanId, "noop", via)
       /\ UNCHANGED <<props, session, trip>>
  ELSE LET i == FindById(passengers, currentScanId) IN
       IF i = 0
       THEN /\ log' = <<>>
            /\ calls' = <<>>
            /\ last' = Outcome("scanSuccess", currentScanId, "noop", via)
            /\ UNCHANGED <<props, session, trip>>
       ELSE LET passenger == passengers[i]
                updatedPassengers ==
                  markScanned(passengers, currentScanId,
                              mockQRData(passenger, language, created))
            IN /\ log' = <<logFSMEvent("scan:result",
                             [passengerId |-> currentScanId, match |-> TRUE,
                              amount |-> passenger.ticketCount * TicketPrice],
                             now)>>
               /\ calls' = <<[cb |-> "onUpdate", arg |-> updatedPassengers]>>
               /\ passengers' = parentOnUpdate(passengers, updatedPassengers)
               /\ showScanner' = FALSE
               /\ currentScanId' = Null
               /\ scanLocked' = FALSE
               /\ last' = Outcome("scanSuccess", currentScanId, "applied", via)
               /\ UNCHANGED <<disabled, language, trip>>

\* Shared by the dialog's onInvalid and onQRNotFound; op tells them apart.
handleScanError(op, now, via) ==
  IF Falsy(currentScanId)
  THEN /\ log' = <<>>
       /\ calls' = <<>>
       /\ last' = Outcome(op, currentScanId, "noop", via)
       /\ UNCHANGED <<props, session, trip>>
  ELSE LET updatedPassengers == markError(passengers, currentScanId)
       IN /\ log' = <<logFSMEvent("scan:error",
                        [passengerId |-> currentScanId, error |-> "Invalid QR"],
                        now)>>
          /\ calls' = <<[cb |-> "onUpdate", arg |-> updatedPassengers]>>
          /\ passengers' = parentOnUpdate(passengers, updatedPassengers)
          /\ showScanner' = FALSE
          /\ currentScanId' = Null
          /\ scanLocked' = FALSE
          /\ last' = Outcome(op, currentScanId, "applied", via)
          /\ UNCHANGED <<disabled, language, trip>>

\* Mutation: the accept handler is wired to the reject callback.
handleAccept_firesReject(passengerId, now, via) ==
  /\ log' = <<logFSMEvent("accept:clicked",
                [passengerId |-> passengerId, context |-> "queue"], now)>>
  /\ calls' = <<[cb |-> "onReject", arg |-> passengerId]>>
  /\ passengers' = parentOnReject(passengers, passengerId)
  /\ last' = Outcome("accept", passengerId, "fired", via)
  /\ UNCHANGED <<disabled, language, session, trip>>

handleAccept(passengerId, now, via) ==
  /\ log' = <<logFSMEvent("accept:clicked",
                [passengerId |-> passengerId, context |-> "queue"], now)>>
  /\ calls' = <<[cb |-> "onAccept", arg |-> passengerId]>>
  /\ passengers' = parentOnAccept(passengers, passengerId)
  /\ last' = Outcome("accept", passengerId, "fired", via)
  /\ UNCHANGED <<disabled, language, session, trip>>

handleReject(passengerId, now, via) ==
  /\ log' = <<logFSMEvent("reject:clicked",
                [passengerId |-> passengerId, context |-> "queue"], now)>>
  /\ calls' = <<[cb |-> "onReject", arg |-> passengerId]>>
  /\ passengers' = parentOnReject(passengers, passengerId)
  /\ last' = Outcome("reject", passengerId, "fired", via)
  /\ UNCHANGED <<disabled, language, session, trip>>

handleReturn(passengerId, now, via) ==
  /\ log' = <<logFSMEvent("return:clicked",
                [passengerId |-> passengerId, context |-> "queue"], now)>>
  /\ calls' = <<[cb |-> "onReturn", arg |-> passengerId]>>
  /\ passengers' = parentOnReturn(passengers, passengerId)
  /\ last' = Outcome("return", passengerId, "fired", via)
  /\ UNCHANGED <<disabled, language, session, trip>>

\* Mutation: the dismissal drops the lock flag but keeps the target id.
setShowScanner_dropsLock(open) ==
  /\ showScanner' = open
  /\ scanLocked' = FALSE
  /\ log' = <<>>
  /\ calls' = <<>>
  /\ last' = Outcome("dismiss", currentScanId, "closed", "ui")
  /\ UNCHANGED <<props, currentScanId, trip>>

\* CashQRDialog onOpenChange={setShowScanner}
setShowScanner(open) ==
  /\ showScanner' = open
  /\ log' = <<>>
  /\ calls' = <<>>
  /\ last' = Outcome("dismiss", currentScanId, "closed", "ui")
  /\ UNCHANGED <<props, currentScanId, scanLocked, trip>>

(***************************************************************************)
(* What the component renders: which controls exist and are enabled.       *)
(***************************************************************************)
\* Mutation: the return button is rendered in every grid cell.
ReturnButtonRendered_everyCell(id) ==
  \E i \in 1..Len(passengers) :
    /\ i <= GridSize
    /\ passengers[i].id = id

\* One return button per grid cell (the first GridSize passengers) in error
\* or scanned with data.
ReturnButtonRendered(id) ==
  \E i \in 1..Len(passengers) :
    /\ i <= GridSize
    /\ passengers[i].id = id
    /\ (passengers[i].qrError
          \/ (passengers[i].scanned /\ passengers[i].qrData # {}))

\* Mutation: the accept/reject pair is rendered without the scanned filter.
DecisionButtonsRendered_unfiltered(id) ==
  \E i \in 1..Len(passengers) :
    /\ passengers[i].id = id
    /\ ~passengers[i].qrError

\* One accept/reject pair per passenger scanned with data and not in error.
DecisionButtonsRendered(id) ==
  \E i \in 1..Len(passengers) :
    /\ passengers[i].id = id
    /\ passengers[i].scanned /\ passengers[i].qrData # {} /\ ~passengers[i].qrError

\* Mutation: the render condition tests qrError instead of !qrError.
ScanButtonRendered_wrongFlag ==
  ~ \E i \in 1..Len(passengers) :
      passengers[i].scanned /\ passengers[i].qrData # {} /\ passengers[i].qrError

\* Mutation: the main scan button is rendered unconditionally.
ScanButtonRendered_always == TRUE

\* The main scan button exists only when no accept/reject decision is pending.
ScanButtonRendered ==
  ~ \E i \in 1..Len(passengers) :
      passengers[i].scanned /\ passengers[i].qrData # {} /\ ~passengers[i].qrError

\* Mutation: the button's disabled attribute forgets scanLocked.
ScanButtonDisabled_noLock == disabled

ScanButtonDisabled == disabled \/ scanLocked

\* The dialog, and with it its confirm / invalid / not-found controls, is
\* open exactly while showScanner holds.
DialogOpen == showScanner

\* A press that reaches no handler: the control is absent or disabled.
Ignored(op) ==
  /\ log' = <<>>
  /\ calls' = <<>>
  /\ last' = Outcome(op, Null, "ignored", "ui")
  /\ UNCHANGED <<props, session, trip>>

(***************************************************************************)
(* Driver operations.                                                      *)
(***************************************************************************)
ClickScan ==
  \/ /\ ScanButtonRendered /\ ~ScanButtonDisabled
     /\ \E now \in Times : handleStartScan(now, "ui")
  \/ /\ ~(ScanButtonRendered /\ ~ScanButtonDisabled)
     /\ Ignored("startScan")

DialogConfirm ==
  \/ /\ DialogOpen
     /\ \E now \in Times, created \in Times :
          handleScanSuccess(now, created, "ui")
  \/ /\ ~DialogOpen
     /\ Ignored("scanSuccess")

DialogInvalid ==
  \/ /\ DialogOpen
     /\ \E now \in Times : handleScanError("invalid", now, "ui")
  \/ /\ ~DialogOpen
     /\ Ignored("invalid")

DialogQRNotFound ==
  \/ /\ DialogOpen
     /\ \E now \in Times : handleScanError("notFound", now, "ui")
  \/ /\ ~DialogOpen
     /\ Ignored("notFound")

DialogDismiss ==
  /\ DialogOpen
  /\ setShowScanner(FALSE)

ClickAccept ==
  \/ \E id \in Ids, now \in Times :
       /\ DecisionButtonsRendered(id) /\ ~disabled
       /\ handleAccept(id, now, "ui")
  \/ /\ \E id \in Ids : ~(DecisionButtonsRendered(id) /\ ~disabled)
     /\ Ignored("accept")

ClickReject ==
  \/ \E id \in Ids, now \in Times :
       /\ DecisionButtonsRendered(id) /\ ~disabled
       /\ handleReject(id, now, "ui")
  \/ /\ \E id \in Ids : ~(DecisionButtonsRendered(id) /\ ~disabled)
     /\ Ignored("reject")

ClickReturn ==
  \/ \E id \in Ids, now \in Times :
       /\ ReturnButtonRendered(id) /\ ~disabled
       /\ handleReturn(id, now, "ui")
  \/ /\ \E id \in Ids : ~(ReturnButtonRendered(id) /\ ~disabled)
     /\ Ignored("return")

\* The caller re-renders the component with the disabled prop flipped.
SetDisabled ==
  /\ disabled' = ~disabled
  /\ log' = <<>>
  /\ calls' = <<>>
  /\ last' = Outcome("props", Null, "none", "ui")
  /\ UNCHANGED <<passengers, language, session, trip>>

Next ==
  \/ ClickScan
  \/ DialogConfirm
  \/ DialogInvalid
  \/ DialogQRNotFound
  \/ DialogDismiss
  \/ ClickAccept
  \/ ClickReject
  \/ ClickReturn
  \/ SetDisabled

Spec == Init /\ [][Next]_vars

TypeOK ==
  /\ disabled \in BOOLEAN
  /\ language \in Languages
  /\ showScanner \in BOOLEAN
  /\ scanLocked \in BOOLEAN
  /\ currentScanId \in Ids \cup {Null}
  /\ Len(passengers) <= MaxPassengers
  /\ \A i \in 1..Len(passengers) :
       /\ passengers[i].id \in Ids
       /\ passengers[i].ticketCount = InitTicketCount(passengers[i].id)

(***************************************************************************)
(* The handlers invoked directly, without the rendered control in between, *)
(* from any state the component reaches: what a handler does on its own    *)
(* guards.  One direct call ends the run.                                  *)
(***************************************************************************)
DirectStartScan ==
  /\ last.via = "ui"
  /\ \E now \in Times : handleStartScan(now, "direct")

DirectScanSuccess ==
  /\ last.via = "ui"
  /\ \E now \in Times, created \in Times :
       handleScanSuccess(now, created, "direct")

DirectScanError ==
  /\ last.via = "ui"
  /\ \E now \in Times : handleScanError("invalid", now, "direct")

DirectAccept ==
  /\ last.via = "ui"
  /\ \E id \in Ids, now \in Times : handleAccept(id, now, "direct")

DirectReject ==
  /\ last.via = "ui"
  /\ \E id \in Ids, now \in Times : handleReject(id, now, "direct")

DirectReturn ==
  /\ last.via = "ui"
  /\ \E id \in Ids, now \in Times : handleReturn(id, now, "direct")

NextHandlers ==
  \/ (last.via = "ui" /\ Next)
  \/ DirectStartScan
  \/ DirectScanSuccess
  \/ DirectScanError
  \/ DirectAccept
  \/ DirectReject
  \/ DirectReturn

HandlerSpec == Init /\ [][NextHandlers]_vars

(***************************************************************************)
(* The component mounted on a queue in which no payment decision is        *)
(* pending yet: no passenger of the initial list is scanned.               *)
(***************************************************************************)
InitNoneScanned ==
  /\ Init
  /\ \A i \in 1..Len(passengers) : ~passengers[i].scanned

SpecNoneScanned == InitNoneScanned /\ [][Next]_vars

(***************************************************************************)
(* The trip lifecycle: the driver presses the one main button the          *)
(* ActionTable offers for the current race state, the trip store applies   *)
(* its action, the route is declared complete from outside, and legacy     *)
(* statuses arrive to be converted.  The queue panel stays as mounted.     *)
(***************************************************************************)
LegacyInputs ==
  {"PREP_IDLE", "PREP_TIMER", "BOARDING", "ROUTE_READY", "IN_ROUTE",
   "FINISHED", "UNKNOWN", "RACE_BOARDING", "", "constructor", "toString",
   "__proto__", "__defineGetter__"}

InitLifecycle ==
  /\ passengers = <<>>
  /\ disabled = FALSE
  /\ language = "en"
  /\ showScanner = FALSE
  /\ currentScanId = Null
  /\ scanLocked = FALSE
  /\ log = <<>>
  /\ calls = <<>>
  /\ last = [op |-> "init", id |-> Null, result |-> "none", via |-> "ui"]
  /\ trip = TripInit

PressMainButton ==
  /\ \E cfg \in Lookup(RACE_STATE_TO_BUTTON, trip.raceState),
        panels \in Lookup(RACE_STATE_TO_PANELS, trip.raceState) :
       /\ panels.mainButton
       /\ cfg.enabled
       /\ trip' = [trip EXCEPT !.raceState = storeApply(trip.raceState, cfg.action),
                               !.by = "driver",
                               !.action = cfg.action]
  /\ UNCHANGED <<props, session, log, calls, last>>

RouteComplete ==
  /\ trip.raceState \in {"RACE_BOARDING", "RACE_IN_TRANSIT", "RACE_ARRIVED_STOP"}
  /\ trip' = [trip EXCEPT !.raceState = "RACE_FINISHED",
                          !.by = "external",
                          !.action = "none"]
  /\ UNCHANGED <<props, session, log, calls, last>>

AdaptLegacy ==
  /\ \E s \in LegacyInputs :
       trip' = [trip EXCEPT !.legacy = s,
                            !.adapted = toRaceState(s),
                            !.by = "adapter",
                            !.action = "none"]
  /\ UNCHANGED <<props, session, log, calls, last>>

NextLifecycle ==
  \/ PressMainButton
  \/ RouteComplete
  \/ AdaptLegacy

LifecycleSpec == InitLifecycle /\ [][NextLifecycle]_vars

(***************************************************************************)
(* Vocabulary of the properties.                                           *)
(***************************************************************************)
ResolveOps == {"scanSuccess", "invalid", "notFound"}

\* The handler of the last operation ran (the press was not swallowed by an
\* absent or disabled control).
Invoked(o) == o.result # "ignored"

StatusOf(ps, id) ==
  IF FindById(ps, id) = 0 THEN "Absent" ELSE ScanStatus(ps[FindById(ps, id)])

NoneScanned(ps) == \A i \in 1..Len(ps) : ScanStatus(ps[i]) # "Scanned"

SomePending(ps) == \E i \in 1..Len(ps) : ScanStatus(ps[i]) = "Pending"

\* The Pending passenger with the least queuePosition.
MinPendingId(ps) ==
  LET i == CHOOSE k \in 1..Len(ps) :
             /\ ScanStatus(ps[k]) = "Pending"
             /\ \A j \in 1..Len(ps) :
                  ScanStatus(ps[j]) = "Pending"
                    => ps[k].queuePosition <= ps[j].queuePosition
  IN ps[i].id

Emitted(l, event) == \E k \in 1..Len(l) : l[k].event = event

(***************************************************************************)
(* C1  Single in-flight scan: while the session is locked on a passenger,  *)
(* a further startScan starts nothing and leaves the session on that       *)
(* passenger; no scan:start is emitted while locked, the target never      *)
(* changes to another passenger, and the lock is released only by a        *)
(* resolution.                                                             *)
(***************************************************************************)
C1_SingleInFlightScan ==
  [][scanLocked =>
       /\ (last'.op = "startScan" =>
             /\ last'.result # "started"
             /\ UNCHANGED <<passengers, session>>)
       /\ ~Emitted(log', "scan:start")
       /\ currentScanId' \in {currentScanId, Null}
       /\ (~scanLocked' => last'.op \in ResolveOps)]_vars

\* A press of the scan button was refused by the lock alone: the button is
\* rendered, the caller is enabled and a Pending passenger is waiting.
C1_Witness ==
  /\ last.op = "startScan" /\ last.result = "ignored"
  /\ scanLocked /\ currentScanId # Null
  /\ ~disabled /\ ScanButtonRendered
  /\ \E i \in 1..Len(passengers) :
       /\ ScanStatus(passengers[i]) = "Pending"
       /\ passengers[i].id # currentScanId

(***************************************************************************)
(* C2  Resolve clears the lock unconditionally: right after any invoked    *)
(* resolution (confirm, invalid, not found) the session is unlocked and    *)
(* has no active passenger.                                                *)
(***************************************************************************)
C2_ResolveClearsLock ==
  (last.op \in ResolveOps /\ Invoked(last)) =>
     (~scanLocked /\ currentScanId = Null)

(***************************************************************************)
(* C3  Closing the scan dialog never leaves the session locked: in no      *)
(* reachable state is the dialog closed while the session is locked.       *)
(***************************************************************************)
C3_ClosedDialogUnlocked == ~showScanner => ~scanLocked

(***************************************************************************)
(* C4  Queue order selection: a successful startScan targets the Pending   *)
(* passenger with the minimum queuePosition.                               *)
(***************************************************************************)
C4_MinPositionSelected ==
  (last.op = "startScan" /\ last.result = "started") =>
     (SomePending(passengers) /\ last.id = MinPendingId(passengers))

(***************************************************************************)
(* C5  The scan affordance is offered only when no payment decision is     *)
(* outstanding: whenever the scan button is rendered, and whenever a       *)
(* startScan has just succeeded, no passenger is Scanned.                  *)
(***************************************************************************)
C5_ScanOfferedOnlyWhenNoneScanned ==
  /\ ScanButtonRendered =>
       \A i \in 1..Len(passengers) : ~passengers[i].scanned
  /\ (last.op = "startScan" /\ last.result = "started") =>
       \A i \in 1..Len(passengers) : ~passengers[i].scanned

\* A scan was started from the rendered button next to an errored passenger.
C5_Witness ==
  /\ last.op = "startScan" /\ last.result = "started" /\ last.via = "ui"
  /\ ScanButtonRendered
  /\ \E i \in 1..Len(passengers) : ScanStatus(passengers[i]) = "Error"

(***************************************************************************)
(* C6  Accept/Reject precondition: onAccept / onReject fire only for a     *)
(* passenger that is Scanned; a press for any other passenger reaches no   *)
(* handler, fires no callback and changes neither the list nor the         *)
(* session.                                                                *)
(***************************************************************************)
C6_DecisionPrecondition ==
  [][last'.op \in {"accept", "reject"} =>
       IF Invoked(last')
       THEN StatusOf(passengers, last'.id) = "Scanned"
       ELSE /\ calls' = <<>>
            /\ log' = <<>>
            /\ UNCHANGED <<passengers, session>>]_vars

\* An accept was pressed with the controls enabled while no passenger was
\* Scanned (one Pending, one in Error): it reached no handler.
C6_Witness ==
  /\ last.op = "accept" /\ last.result = "ignored"
  /\ ~disabled
  /\ NoneScanned(passengers)
  /\ \E i, j \in 1..Len(passengers) :
       /\ ScanStatus(passengers[i]) = "Pending"
       /\ ScanStatus(passengers[j]) = "Error"

(***************************************************************************)
(* C7  Return is a total inverse: an invoked return(id) acts on a          *)
(* passenger that is Scanned or in Error and leaves it Pending with no     *)
(* qrData at its place and queuePosition, every other passenger            *)
(* untouched; a return pressed for a Pending passenger reaches no handler  *)
(* and changes nothing.                                                    *)
(***************************************************************************)
C7_ReturnTotalInverse ==
  [][last'.op = "return" =>
       IF Invoked(last')
       THEN /\ StatusOf(passengers, last'.id) \in {"Scanned", "Error"}
            /\ Len(passengers') = Len(passengers)
            /\ \A i \in 1..Len(passengers) :
                 IF passengers[i].id = last'.id
                 THEN /\ ScanStatus(passengers'[i]) = "Pending"
                      /\ passengers'[i].qrData = {}
                      /\ passengers'[i].id = passengers[i].id
                      /\ passengers'[i].queuePosition = passengers[i].queuePosition
                      /\ passengers'[i].ticketCount = passengers[i].ticketCount
                 ELSE passengers'[i] = passengers[i]
            /\ UNCHANGED session
       ELSE /\ calls' = <<>>
            /\ UNCHANGED <<passengers, session>>]_vars

\* A return ran from its button and its passenger is Pending again with no
\* data, next to another passenger of the queue.
C7_Witness ==
  /\ last.op = "return" /\ last.result = "fired" /\ last.via = "ui"
  /\ StatusOf(passengers, last.id) = "Pending"
  /\ Emitted(log, "return:clicked")
  /\ Len(passengers) >= 2

(***************************************************************************)
(* C8  qrData is present iff the passenger is Scanned, in every state; and *)
(* after an invoked resolveScan(Failure) the target passenger is in Error  *)
(* with no qrData.                                                         *)
(***************************************************************************)
C8_QrDataIffScanned ==
  /\ \A i \in 1..Len(passengers) :
       (passengers[i].qrData # {}) <=> (ScanStatus(passengers[i]) = "Scanned")
  /\ (last.op \in {"invalid", "notFound"} /\ Invoked(last)) =>
       \E i \in 1..Len(passengers) :
         /\ passengers[i].id = last.id
         /\ ScanStatus(passengers[i]) = "Error"
         /\ passengers[i].qrData = {}

(***************************************************************************)
(* C9  A refused startScan changes nothing: handleStartScan invoked with   *)
(* disabled set is blocked with reason preparation_not_started, invoked    *)
(* enabled with no Pending passenger it is blocked with reason             *)
(* no_passengers_available; either way the list and the session are        *)
(* unchanged, no callback fires and exactly one ui:blocked event carrying  *)
(* the reason is emitted.                                                  *)
(***************************************************************************)
C9_RefusedStartScan ==
  [][(last'.op = "startScan" /\ Invoked(last')) =>
       /\ (disabled \/ ~SomePending(passengers)) <=> (last'.result = "blocked")
       /\ last'.result = "blocked" =>
            /\ UNCHANGED <<passengers, session>>
            /\ (~scanLocked => ~scanLocked' /\ currentScanId' = currentScanId)
            /\ calls' = <<>>
            /\ Len(log') = 1
            /\ log'[1].event = "ui:blocked"
            /\ log'[1].details.action = "queue_scan"
            /\ log'[1].details.reason =
                 (IF disabled THEN "preparation_not_started"
                              ELSE "no_passengers_available")]_vars

\* handleStartScan was refused for disabled although a Pending passenger
\* was waiting and no session was open.
C9_Witness ==
  /\ last.op = "startScan" /\ last.result = "blocked"
  /\ disabled /\ SomePending(passengers)
  /\ ~scanLocked /\ currentScanId = Null
  /\ Emitted(log, "ui:blocked")

(***************************************************************************)
(* C10  resolveScan takes effect exactly when a session is locked: an      *)
(* invoked resolution applies its outcome if the session is locked, and    *)
(* otherwise fires no onUpdate and changes neither list nor session.       *)
(***************************************************************************)
C10_ResolveIffLocked ==
  [][(last'.op \in ResolveOps /\ Invoked(last')) =>
       IF scanLocked
       THEN last'.result = "applied"
       ELSE /\ last'.result = "noop"
            /\ calls' = <<>>
            /\ UNCHANGED <<passengers, session>>]_vars

(***************************************************************************)
(* C11  A successful scan marks the passenger startScan selected: right    *)
(* after an invoked resolveScan(Success) the session's target is Scanned   *)
(* with qrData.sum = ticketCount * 320 and the session is unlocked.        *)
(***************************************************************************)
C11_SuccessMarksTarget ==
  (last.op = "scanSuccess" /\ Invoked(last)) =>
     /\ \E i \in 1..Len(passengers) :
          /\ passengers[i].id = last.id
          /\ ScanStatus(passengers[i]) = "Scanned"
          /\ \E d \in passengers[i].qrData :
               d.sum = passengers[i].ticketCount * TicketPrice
     /\ ~scanLocked
     /\ currentScanId = Null

(***************************************************************************)
(* C12  accept / reject on a Scanned passenger succeeds: every Scanned     *)
(* passenger has its accept and reject buttons; an invoked accept          *)
(* (reject) signals onAccept (onReject) exactly once with that id, the     *)
(* passenger leaves the queue, the others keep their data and order, and   *)
(* the scan session is unchanged.                                          *)
(***************************************************************************)
C12_DecisionOnScanned ==
  [][/\ \A i \in 1..Len(passengers) :
          ScanStatus(passengers[i]) = "Scanned"
            => DecisionButtonsRendered(passengers[i].id)
     /\ (last'.op \in {"accept", "reject"} /\ Invoked(last')) =>
          /\ calls' = <<[cb |-> (IF last'.op = "accept" THEN "onAccept"
                                                       ELSE "onReject"),
                         arg |-> last'.id]>>
          /\ StatusOf(passengers', last'.id) = "Absent"
          /\ passengers' = SelectSeq(passengers, LAMBDA q : q.id # last'.id)
          /\ Len(passengers') = Len(passengers) - 1
          /\ UNCHANGED session]_vars

\* A Scanned passenger was rejected from its button and left the queue,
\* another passenger staying behind.
C12_Witness ==
  /\ last.op = "reject" /\ last.result = "fired" /\ last.via = "ui"
  /\ StatusOf(passengers, last.id) = "Absent"
  /\ Len(passengers) >= 1
  /\ Len(calls) = 1 /\ calls[1].cb = "onReject"

(***************************************************************************)
(* C16  onUpdate has replace semantics and a resolution touches only its   *)
(* target: a resolution that applies fires onUpdate exactly once with the  *)
(* full list, the same ids in the same order, every passenger other than   *)
(* the target unchanged; a resolution that does not apply fires nothing    *)
(* and leaves the list alone.                                              *)
(***************************************************************************)
C16_UpdateTouchesOnlyTarget ==
  [][(last'.op \in ResolveOps /\ Invoked(last')) =>
       IF last'.result = "applied"
       THEN /\ Len(calls') = 1
            /\ calls'[1].cb = "onUpdate"
            /\ Len(calls'[1].arg) = Len(passengers)
            /\ \A i \in 1..Len(passengers) :
                 /\ calls'[1].arg[i].id = passengers[i].id
                 /\ passengers[i].id # currentScanId
                      => calls'[1].arg[i] = passengers[i]
            /\ \E i \in 1..Len(passengers) :
                 /\ passengers[i].id = currentScanId
                 /\ calls'[1].arg[i] # passengers[i]
       ELSE /\ calls' = <<>>
            /\ passengers' = passengers]_vars

\* A failed scan was applied to its target while another passenger of the
\* list stayed Pending.
C16_Witness ==
  /\ last.op = "invalid" /\ last.result = "applied"
  /\ Len(calls) = 1 /\ calls[1].cb = "onUpdate"
  /\ StatusOf(passengers, last.id) = "Error"
  /\ \E j \in 1..Len(passengers) :
       passengers[j].id # last.id /\ ScanStatus(passengers[j]) = "Pending"

(***************************************************************************)
(* C17  Every scan is logged as a start followed by a result under the     *)
(* listed names: a successful startScan emits scan:start for its target,   *)
(* every invoked resolution, Success or Failure, emits exactly one         *)
(* scan:result for the session's passenger, and no event carries a name    *)
(* outside the six listed ones.                                            *)
(***************************************************************************)
ListedEvents ==
  {"ui:blocked", "scan:start", "scan:result",
   "accept:clicked", "reject:clicked", "return:clicked"}

C17_ScanLoggedStartThenResult ==
  /\ \A k \in 1..Len(log) : log[k].event \in ListedEvents
  /\ (last.op = "startScan" /\ last.result = "started") =>
       /\ Len(log) = 1
       /\ log[1].event = "scan:start"
       /\ log[1].details.passengerId = last.id
  /\ (last.op \in ResolveOps /\ Invoked(last)) =>
       /\ Len(log) = 1
       /\ log[1].event = "scan:result"
       /\ log[1].details.passengerId = last.id

(***************************************************************************)
(* C18  The scan status is a true tri-state: no passenger ever has scanned *)
(* and qrError both set.                                                   *)
(***************************************************************************)
C18_NeverBothFlags ==
  \A i \in 1..Len(passengers) :
    ~(passengers[i].scanned /\ passengers[i].qrError)

\* A scan has just succeeded on its target (scanned, not in error) next to a
\* passenger an earlier failure left in error (in error, not scanned).
C18_Witness ==
  /\ last.op = "scanSuccess" /\ last.result = "applied"
  /\ \E i, j \in 1..Len(passengers) :
       /\ passengers[i].id = last.id
       /\ passengers[i].scanned /\ ~passengers[i].qrError
       /\ passengers[j].qrError /\ ~passengers[j].scanned

(***************************************************************************)
(* C19  The session is locked iff it has an active passenger, in every     *)
(* state, and no step changes the lock without the active passenger or     *)
(* the active passenger's presence without the lock.                       *)
(***************************************************************************)
C19_LockedIffActivePassenger ==
  [][/\ scanLocked <=> (currentScanId # Null)
     /\ scanLocked' <=> (currentScanId' # Null)
     /\ (scanLocked' # scanLocked)
          <=> ((currentScanId' = Null) # (currentScanId = Null))]_vars

\* The dialog was dismissed: the session is still locked and still names its
\* passenger.
C19_Witness ==
  /\ last.op = "dismiss"
  /\ ~showScanner
  /\ scanLocked /\ currentScanId # Null

(***************************************************************************)
(* C20  At most one payment decision is outstanding: from a queue with no  *)
(* Scanned passenger, at most one passenger is Scanned at any time and     *)
(* none is Scanned while the scan session is locked.                       *)
(***************************************************************************)
C20_AtMostOneScanned ==
  /\ Cardinality({i \in 1..Len(passengers) :
                    ScanStatus(passengers[i]) = "Scanned"}) <= 1
  /\ scanLocked => NoneScanned(passengers)

\* A scan has just succeeded: its passenger is the one Scanned, another is
\* still Pending and the scan button is gone.
C20_Witness ==
  /\ last.op = "scanSuccess" /\ last.result = "applied"
  /\ StatusOf(passengers, last.id) = "Scanned"
  /\ SomePending(passengers)
  /\ ~ScanButtonRendered


(***************************************************************************)
(* Lifecycle vocabulary.                                                   *)
(***************************************************************************)
ListedAction(state) ==
  CASE state = "RACE_OFFLINE" -> "start_shift"
    [] state = "RACE_WAITING_START" -> "start_trip"
    [] state = "RACE_BOARDING" -> "depart_stop"
    [] state = "RACE_IN_TRANSIT" -> "arrive_stop"
    [] state = "RACE_ARRIVED_STOP" -> "start_boarding"
    [] state = "RACE_FINISHED" -> "finish_trip"

ListedEdge(state) ==
  CASE state = "RACE_OFFLINE" -> "RACE_WAITING_START"
    [] state = "RACE_WAITING_START" -> "RACE_BOARDING"
    [] state = "RACE_BOARDING" -> "RACE_IN_TRANSIT"
    [] state = "RACE_IN_TRANSIT" -> "RACE_ARRIVED_STOP"
    [] state = "RACE_ARRIVED_STOP" -> "RACE_BOARDING"
    [] state = "RACE_FINISHED" -> "RACE_OFFLINE"

ListedLegacy(status) ==
  CASE status = "PREP_IDLE" -> "RACE_OFFLINE"
    [] status = "PREP_TIMER" -> "RACE_WAITING_START"
    [] status = "BOARDING" -> "RACE_BOARDING"
    [] status = "ROUTE_READY" -> "RACE_ARRIVED_STOP"
    [] status = "IN_ROUTE" -> "RACE_IN_TRANSIT"
    [] status = "FINISHED" -> "RACE_FINISHED"

LegacyVocabulary ==
  {"PREP_IDLE", "PREP_TIMER", "BOARDING", "ROUTE_READY", "IN_ROUTE", "FINISHED"}

\* C13: the ActionTable is total over the six race states; in every race
\* state the trip reaches, the one main action offered is the listed one, it
\* is enabled and it is never "none"; the panel visibility is defined for
\* every race state, with all four of its flags.
C13_ActionTableTotal ==
  /\ trip.raceState \in RaceStates
  /\ \A s \in RaceStates :
       /\ Cardinality(Lookup(RACE_STATE_TO_BUTTON, s)) = 1
       /\ Cardinality(Lookup(RACE_STATE_TO_PANELS, s)) = 1
       /\ \A p \in Lookup(RACE_STATE_TO_PANELS, s) :
            /\ DOMAIN p = {"mainButton", "queue", "reservation", "cash"}
            /\ \A f \in DOMAIN p : p[f] \in BOOLEAN
  /\ \A cfg \in Lookup(RACE_STATE_TO_BUTTON, trip.raceState) :
       /\ cfg.action = ListedAction(trip.raceState)
       /\ cfg.action \in TransitionActions \ {"none"}
       /\ cfg.enabled

\* The trip was declared complete from outside and stands in RACE_FINISHED,
\* where the table offers an enabled finish_trip.
C13_Witness ==
  /\ trip.raceState = "RACE_FINISHED"
  /\ trip.by = "external"
  /\ \E cfg \in Lookup(RACE_STATE_TO_BUTTON, trip.raceState) :
       cfg.action = "finish_trip" /\ cfg.enabled

\* C14: driven only by the offered actions the trip goes Offline,
\* WaitingStart, Boarding and then round Boarding, InTransit, ArrivedStop;
\* no driver action enters Finished, which only the external decision does;
\* FinishTrip is taken only in Finished and leads to Offline.
C14_LifecycleEdges ==
  [][ /\ (trip'.by = "driver") =>
           /\ trip'.action = ListedAction(trip.raceState)
           /\ trip'.raceState = ListedEdge(trip.raceState)
           /\ trip'.raceState # "RACE_FINISHED"
           /\ (trip.raceState \in {"RACE_BOARDING", "RACE_IN_TRANSIT", "RACE_ARRIVED_STOP"}
                 => trip'.raceState \in {"RACE_BOARDING", "RACE_IN_TRANSIT", "RACE_ARRIVED_STOP"})
           /\ (trip'.action = "finish_trip") <=> (trip.raceState = "RACE_FINISHED")
           /\ (trip'.action = "finish_trip") => (trip'.raceState = "RACE_OFFLINE")
      /\ (trip'.raceState = "RACE_FINISHED" /\ trip.raceState # "RACE_FINISHED")
           => trip'.by = "external"
    ]_vars

\* The driver has gone round the cycle: start_boarding was just taken from
\* ArrivedStop and the trip is boarding again.
C14_Witness ==
  /\ trip.by = "driver"
  /\ trip.action = "start_boarding"
  /\ trip.raceState = "RACE_BOARDING"

\* The driver has just finished a trip: finish_trip led back to Offline.
C14_FinishWitness ==
  /\ trip.by = "driver"
  /\ trip.action = "finish_trip"
  /\ trip.raceState = "RACE_OFFLINE"

\* C15: the legacy adapter maps each of the six legacy statuses to the
\* listed race state, and fails with UnknownStatus on any other input
\* instead of returning a value that is not a race state.
C15_AdapterTotalOrFails ==
  (trip.by = "adapter") =>
     IF trip.legacy \in LegacyVocabulary
       THEN /\ trip.adapted.value = {ListedLegacy(trip.legacy)}
            /\ trip.adapted.error = "none"
       ELSE /\ trip.adapted.error = "UnknownStatus"
            /\ trip.adapted.value = {}

\* C15, the part that holds: the six legacy statuses map as listed.
C15_KnownStatusesMapped ==
  (trip.by = "adapter" /\ trip.legacy \in LegacyVocabulary) =>
     /\ trip.adapted.value = {ListedLegacy(trip.legacy)}
     /\ trip.adapted.value \subseteq RaceStates
     /\ trip.adapted.error = "none"

\* What the lookup does outside the vocabulary: undefined, and no failure.
C15_UnknownYieldsUndefined ==
  /\ trip.by = "adapter"
  /\ trip.legacy = "UNKNOWN"
  /\ trip.adapted.value = {}
  /\ trip.adapted.error = "none"

\* What it does for a key every object inherits: the inherited function
\* comes back, which is no race state, and again nothing fails.
C15_InheritedYieldsNonRaceState ==
  /\ trip.by = "adapter"
  /\ trip.legacy = "constructor"
  /\ trip.adapted.value # {}
  /\ trip.adapted.value \cap RaceStates = {}
  /\ trip.adapted.error = "none"

====
